---- MODULE Spec2Model ----
(***************************************************************************)
(* GreedyBear (src/tools/GreedyBear.py): a daemon that periodically        *)
(* balances one user's queued PBS jobs over a list of configured queues.   *)
(* The model follows the source function by function: parse_arguments and  *)
(* get_queue_info, get_user_jobs, scheduler_balance, minimize_mismatches,  *)
(* HungarianAlgorithm, move_jobs_to_queue and the loop of main.            *)
(* Python lists are sequences (1-based where Python is 0-based); a search  *)
(* that returns -1 in the source returns 0 here.                           *)
(***************************************************************************)
EXTENDS Integers, Sequences, FiniteSets, TLC

\* ------------------------------------------------------------- bounds
\* longest job list handed to one call of scheduler_balance (SpecBalance)
MaxJobs == 3
\* most jobs the PBS server holds in the runs of the whole daemon (Spec)
MaxClusterJobs == 2
\* most jobs placed by one call of minimize_mismatches (SpecMinimize)
MaxElems == 4

\* ------------------------------------------------------- input values
QueueUniverse == {"A", "B", "X"}
NcpusValues == {1, 2}
PcpusValues == {0, 1, 2, 3}
\* the pcpus that pbsnodes reports for a queue in the runs of the daemon
NodePcpus == {0, 2}
\* the queue lists given with -q (de-duplicated, order kept: line 114)
QueueConfigs == {<<"A">>, <<"A", "B">>}
\* args.user, and the Job_Owner strings of the server, as character lists
User == <<"u">>
OwnerSelf == <<"u", "@", "h">>
OwnerPrefixed == <<"u", "2", "@", "h">>
OwnerOther == <<"v", "@", "h">>

VARIABLES
    tools,          \* __QSTAT__, __QMOVE__, __PBSND__: found on the path or not
    nodes,          \* the cluster: pcpus of the nodes of each queue (pbsnodes)
    cluster,        \* the cluster: the jobs the PBS server holds (qstat)
    args,           \* the argparse.Namespace: queue, dry_run, queue_info
    pc,             \* position of the program
    exc,            \* the exception being raised ("" when none)
    log,            \* the closing log lines of main (lines 510, 512, 516)
    jobs,           \* scheduler_balance: jobs (after line 396)
    records,        \* scheduler_balance: records
    waiting_jobs,   \* scheduler_balance: waiting_jobs
    considered,     \* the ids in waiting_jobs right after line 415
    ffk,            \* first-fit loop: position in records.items()
    ffi,            \* first-fit loop: index i into waiting_jobs
    donor,          \* scheduler_balance: donor
    n_target,       \* scheduler_balance: n_target
    all_elements,   \* minimize_mismatches: all_elements
    slots,          \* minimize_mismatches: slots / slot_to_list_map
    solver,         \* the HungarianAlgorithm object
    assignment,     \* minimize_mismatches: assignment
    mmlists,        \* scheduler_balance: mmlists
    mvk,            \* move loop: position in zip(mmnames, mmlists)
    mjobs,          \* the batch given to move_jobs_to_queue
    mvi,            \* move_jobs_to_queue: position in jobs
    cmds,           \* the qmove command lines of this cycle, run or logged
    listed,         \* this cycle's qstat gave the job list of the server
    stable          \* "moved" or "unmoved": the cycle before this one read
                    \* the job list and ended, and each qmove it issued (at
                    \* least one, or none) was run and took effect; else "no"

vars == <<tools, nodes, cluster, args, pc, exc, log, jobs, records,
          waiting_jobs, considered, ffk, ffi, donor, n_target, all_elements,
          slots, solver, assignment, mmlists, mvk, mjobs, mvi, cmds, listed, stable>>

balanceVars == <<jobs, records, waiting_jobs, considered, ffk, ffi, donor, n_target>>
minimizeVars == <<all_elements, slots, solver, assignment, mmlists>>
moveVars == <<mvk, mjobs, mvi>>
envVars == <<tools, nodes, cluster>>

\* ------------------------------------------------------------ helpers
Range(s) == {s[i] : i \in 1..Len(s)}

Min(S) == CHOOSE x \in S : \A y \in S : x <= y

RECURSIVE SumSeq(_)
SumSeq(s) == IF s = <<>> THEN 0 ELSE Head(s) + SumSeq(Tail(s))

RECURSIVE Concat(_)
Concat(ss) == IF ss = <<>> THEN <<>> ELSE Head(ss) \o Concat(Tail(ss))

\* [x] * k
Repeat(x, k) == [i \in 1..k |-> x]

\* a list that keeps the element read at i
KeepAll(s, i) == s

\* list.pop() in the place of list.pop(i)
RemoveLast(s, i) == SubSeq(s, 1, Len(s) - 1)

\* list.pop(i) leaves the list without its element i
RemoveAt(s, i) == SubSeq(s, 1, i - 1) \o SubSeq(s, i + 1, Len(s))

\* str.startswith
StartsWith(s, p) == Len(s) >= Len(p) /\ SubSeq(s, 1, Len(p)) = p

\* @dataclass Job (name is not read by the program and is left out)
Job(id, owner, queue, state, ncpus) ==
    [id |-> id, owner |-> owner, queue |-> queue, state |-> state, ncpus |-> ncpus]

\* @dataclass QueueRecord
QueueRecord(njobq, pcpus, wj, rj) ==
    [njobq |-> njobq, pcpus |-> pcpus, waiting_jobs |-> wj, recv_jobs |-> rj]

\* list.sort(key=lambda x: x.ncpus): stable, ascending (insertion from the left)
InsertByNcpus(sorted, job) ==
    LET k == Cardinality({i \in 1..Len(sorted) : sorted[i].ncpus <= job.ncpus})
    IN  SubSeq(sorted, 1, k) \o <<job>> \o SubSeq(sorted, k + 1, Len(sorted))

RECURSIVE SortByNcpusFrom(_, _)
SortByNcpusFrom(sorted, rest) ==
    IF rest = <<>> THEN sorted
    ELSE SortByNcpusFrom(InsertByNcpus(sorted, Head(rest)), Tail(rest))

\* a list left in the order of qstat
Unsorted(s) == s

SortByNcpus(s) == SortByNcpusFrom(<<>>, s)

\* --------------------------------------------------- HungarianAlgorithm
NoSolver ==
    [cost_matrix |-> <<>>, n |-> 0, m |-> 0, row_covered |-> <<>>,
     col_covered |-> <<>>, path |-> <<>>, marked |-> <<>>, step |-> 0,
     error |-> ""]

\* HungarianAlgorithm.__init__
NewSolver(cost_matrix) ==
    LET n == Len(cost_matrix)
        m == Len(cost_matrix[1])
    IN  [cost_matrix |-> cost_matrix, n |-> n, m |-> m,
         row_covered |-> Repeat(FALSE, n), col_covered |-> Repeat(FALSE, m),
         path |-> <<>>, marked |-> Repeat(Repeat(0, m), n), step |-> 0,
         error |-> ""]

\* _find_a_zero: the first uncovered zero in row-major order, <<0, 0>> if none
FindAZero(h) ==
    LET Z == {p \in (1..h.n) \X (1..h.m) :
                 /\ h.cost_matrix[p[1]][p[2]] = 0
                 /\ ~h.row_covered[p[1]]
                 /\ ~h.col_covered[p[2]]}
    IN  IF Z = {} THEN <<0, 0>>
        ELSE LET i == Min({p[1] : p \in Z})
             IN  <<i, Min({p[2] : p \in {q \in Z : q[1] = i}})>>

FindStarInRow(h, row) ==
    LET S == {j \in 1..h.m : h.marked[row][j] = 1}
    IN  IF S = {} THEN 0 ELSE Min(S)

FindStarInCol(h, col) ==
    LET S == {i \in 1..h.n : h.marked[i][col] = 1}
    IN  IF S = {} THEN 0 ELSE Min(S)

FindPrimeInRow(h, row) ==
    LET S == {j \in 1..h.m : h.marked[row][j] = 2}
    IN  IF S = {} THEN 0 ELSE Min(S)

\* a Python index: -1 (0 here) is the last element
PyIdx(j, len) == IF j = 0 THEN len ELSE j

\* _step1: subtract each row's minimum from the row
Step1(h) ==
    [h EXCEPT !.cost_matrix =
        [i \in 1..h.n |->
            [j \in 1..h.m |-> h.cost_matrix[i][j] - Min(Range(h.cost_matrix[i]))]]]

\* _step2: subtract each column's minimum from the column
Step2(h) ==
    [h EXCEPT !.cost_matrix =
        [i \in 1..h.n |->
            [j \in 1..h.m |->
                h.cost_matrix[i][j] - Min({h.cost_matrix[r][j] : r \in 1..h.n})]]]

\* a starring that does not look at the stars of the column
RECURSIVE Step3RowsAnyZero(_, _)
Step3RowsAnyZero(h, i) ==
    IF i > h.n THEN h
    ELSE LET free == {j \in 1..h.m : h.cost_matrix[i][j] = 0}
         IN  IF free = {} THEN Step3RowsAnyZero(h, i + 1)
             ELSE Step3RowsAnyZero([h EXCEPT !.marked[i][Min(free)] = 1], i + 1)

\* _step3, rows i..n: star the first zero of the row whose column has no star
RECURSIVE Step3Rows(_, _)
Step3Rows(h, i) ==
    IF i > h.n THEN h
    ELSE LET free == {j \in 1..h.m :
                         /\ h.cost_matrix[i][j] = 0
                         /\ \A row \in 1..h.n : h.marked[row][j] # 1}
         IN  IF free = {} THEN Step3Rows(h, i + 1)
             ELSE Step3Rows([h EXCEPT !.marked[i][Min(free)] = 1], i + 1)

Step3(h) == [Step3Rows(h, 1) EXCEPT !.step = 4]

\* line 268: the step that follows _step4
Step4Next(star_count, n) == IF star_count >= n THEN 5 ELSE 6

\* _step4: cover every column that holds a star, count the stars
Step4(h) ==
    LET star_count ==
            Cardinality({p \in (1..h.n) \X (1..h.m) : h.marked[p[1]][p[2]] = 1})
    IN  [h EXCEPT
            !.col_covered =
                [j \in 1..h.m |->
                    h.col_covered[j] \/ \E i \in 1..h.n : h.marked[i][j] = 1],
            !.step = Step4Next(star_count, h.n)]

\* _step5: prime uncovered zeros until one has no star in its row
RECURSIVE Step5(_)
Step5(h) ==
    LET z == FindAZero(h)
    IN  IF z[1] = 0 THEN [h EXCEPT !.step = 7]
        ELSE LET h1 == [h EXCEPT !.marked[z[1]][z[2]] = 2]
                 star_col == FindStarInRow(h1, z[1])
             IN  IF star_col # 0
                 THEN Step5([h1 EXCEPT !.row_covered[z[1]] = TRUE,
                                       !.col_covered[star_col] = FALSE])
                 ELSE [h1 EXCEPT !.path = <<z>>, !.step = 6]

\* _step6, lines 285-292: extend the path by star and prime in turn
RECURSIVE Step6Path(_, _)
Step6Path(h, path) ==
    LET last == path[Len(path)]
        star_row == FindStarInCol(h, PyIdx(last[2], h.m))
    IN  IF star_row = 0 THEN path
        ELSE Step6Path(h, path \o << <<star_row, last[2]>>,
                                     <<star_row, FindPrimeInRow(h, star_row)>> >>)

\* _step6, lines 294-298: unstar the stars and star the primes of the path
RECURSIVE Step6Flip(_, _)
Step6Flip(marked, path) ==
    IF path = <<>> THEN marked
    ELSE LET r == Head(path)[1]
             c == PyIdx(Head(path)[2], Len(marked[1]))
             v == marked[r][c]
         IN  Step6Flip([marked EXCEPT ![r][c] = IF v = 1 THEN 0
                                                ELSE IF v = 2 THEN 1 ELSE v],
                       Tail(path))

\* _step6: self.path[-1] of an empty path raises IndexError
Step6(h) ==
    IF h.path = <<>> THEN [h EXCEPT !.error = "IndexError"]
    ELSE LET path == Step6Path(h, h.path)
             flipped == Step6Flip(h.marked, path)
         IN  [h EXCEPT
                 !.path = path,
                 !.marked = [i \in 1..h.n |->
                                [j \in 1..h.m |->
                                    IF flipped[i][j] = 2 THEN 0 ELSE flipped[i][j]]],
                 !.row_covered = Repeat(FALSE, h.n),
                 !.col_covered = Repeat(FALSE, h.m),
                 !.step = 4]

\* float('inf') of line 308, above every entry a 0/1 matrix can reach
Infinity == 1000000

\* _step7: add the least uncovered value to covered rows, take it from
\* uncovered columns
Step7(h) ==
    LET U == {h.cost_matrix[p[1]][p[2]] :
                 p \in {q \in (1..h.n) \X (1..h.m) :
                           ~h.row_covered[q[1]] /\ ~h.col_covered[q[2]]}}
        min_uncovered == IF U = {} THEN Infinity ELSE Min(U)
    IN  [h EXCEPT
            !.cost_matrix =
                [i \in 1..h.n |->
                    [j \in 1..h.m |->
                        h.cost_matrix[i][j]
                        + (IF h.row_covered[i] THEN min_uncovered ELSE 0)
                        - (IF ~h.col_covered[j] THEN min_uncovered ELSE 0)]],
            !.step = 5]

\* one pass of the body of solve's while loop, lines 330-339
SolveDispatch(h) ==
    CASE h.step = 3 -> Step3(h)
      [] h.step = 4 -> Step4(h)
      [] h.step = 5 -> Step5(h)
      [] h.step = 6 -> Step6(h)
      [] h.step = 7 -> Step7(h)

\* line 341: the test that leaves the loop
SolveDone(h) ==
    h.step = 5 /\ Cardinality({j \in 1..h.m : h.col_covered[j]}) >= h.n

\* lines 344-349: the starred cells, in row-major order
RECURSIVE SolveResultsFrom(_, _, _)
SolveResultsFrom(h, i, j) ==
    IF i > h.n THEN <<>>
    ELSE IF j > h.m THEN SolveResultsFrom(h, i + 1, 1)
    ELSE (IF h.marked[i][j] = 1 THEN << <<i, j>> >> ELSE <<>>)
         \o SolveResultsFrom(h, i, j + 1)

SolveResults(h) == SolveResultsFrom(h, 1, 1)

\* -------------------------------------------------- minimize_mismatches
\* line 370: the cost of putting a job into a slot
Cost(element, slot_queue) == IF element.queue # slot_queue THEN 1 ELSE 0

\* lines 367-371
CostMatrix(elements, slotqs) ==
    [i \in 1..Len(elements) |->
        [j \in 1..Len(slotqs) |-> Cost(elements[i], slotqs[j])]]

\* lines 358-360 and 380-382: one slot per queue per job the queue is to hold
Slots(lists, names) ==
    Concat([i \in 1..Len(names) |-> Repeat(names[i], Len(lists[i]))])

\* lines 384-387 for one list name: the elements assigned to its slots, in
\* the order of the assignment
RECURSIVE Reconstruct(_, _, _, _)
Reconstruct(asg, elements, slotmap, name) ==
    IF asg = <<>> THEN <<>>
    ELSE (IF slotmap[Head(asg)[2]] = name
          THEN <<elements[Head(asg)[1]]>> ELSE <<>>)
         \o Reconstruct(Tail(asg), elements, slotmap, name)

\* lines 378-391
FinalNewLists(asg, elements, slotmap, names) ==
    [i \in 1..Len(names) |-> Reconstruct(asg, elements, slotmap, names[i])]

\* -------------------------------------------------------- collectors
\* get_queue_info: the pcpus of each configured queue, or the exception that
\* subprocess.run(check=True) or json.loads raises. outcome is what pbsnodes
\* does when it is run: "ok", "nonzero" (exit status) or "unparseable".
GetQueueInfo(queues, dry_run, outcome, nodecpus) ==
    IF dry_run
    THEN [error |-> "", pcpus |-> [k \in 1..Len(queues) |-> 0]]
    ELSE IF outcome = "nonzero"
    THEN [error |-> "CalledProcessError", pcpus |-> <<>>]
    ELSE IF outcome = "unparseable"
    THEN [error |-> "JSONDecodeError", pcpus |-> <<>>]
    ELSE [error |-> "", pcpus |-> [k \in 1..Len(queues) |-> nodecpus[queues[k]]]]

\* line 163: the owner test of get_user_jobs
OwnedBy(owner, user) == StartsWith(owner, user)

\* get_user_jobs: the jobs of the user, empty when qstat is missing, exits
\* non-zero or prints what json.loads rejects
GetUserJobsResult(qstat_found, outcome, server_jobs) ==
    IF ~qstat_found THEN <<>>
    ELSE IF outcome # "ok" THEN <<>>
    ELSE SelectSeq(server_jobs, LAMBDA j : OwnedBy(j.owner, User))

ToolOutcomes == {"ok", "nonzero", "unparseable"}

\* ------------------------------------------------------------- defaults
\* the locals of scheduler_balance and of what it calls, before and after
\* the call
NoLocals ==
    /\ jobs' = <<>>
    /\ records' = <<>>
    /\ waiting_jobs' = <<>>
    /\ considered' = {}
    /\ ffk' = 0
    /\ ffi' = 0
    /\ donor' = <<>>
    /\ n_target' = 0
    /\ all_elements' = <<>>
    /\ slots' = <<>>
    /\ solver' = NoSolver
    /\ assignment' = <<>>
    /\ mmlists' = <<>>
    /\ mvk' = 0
    /\ mjobs' = <<>>
    /\ mvi' = 0

\* an exception leaves the frames of the cycle
Raise(e) ==
    /\ pc' = "raised"
    /\ exc' = e
    /\ NoLocals

\* a filter that keeps the jobs of every queue
ConfiguredAny(name) == TRUE

\* line 396: job.queue in args.queue (records and queue_info are kept in the
\* order of args.queue: dicts iterate in insertion order)
Configured(name) == \E k \in 1..Len(args.queue) : args.queue[k] = name

\* ---------------------------------------------------- parse_arguments
\* lines 67-135 with get_queue_info (line 133): outside the try of main, so
\* an exception here ends the process
ParseArguments ==
    /\ pc = "parse_arguments"
    /\ \E q \in QueueConfigs, dry \in BOOLEAN, outcome \in ToolOutcomes :
          LET qi == GetQueueInfo(q, dry \/ ~tools.pbsnd, outcome, nodes)
          IN  IF qi.error # ""
              THEN /\ pc' = "crashed"
                   /\ exc' = qi.error
                   /\ args' = [queue |-> q, dry_run |-> dry, queue_info |-> <<>>]
              ELSE /\ pc' = "get_user_jobs"
                   /\ exc' = ""
                   /\ args' = [queue |-> q, dry_run |-> dry, queue_info |-> qi.pcpus]
    /\ UNCHANGED <<envVars, log, balanceVars, minimizeVars, moveVars,
                   cmds, listed, stable>>

\* ------------------------------------------------------ get_user_jobs
\* line 493, and the dispatch of lines 499-501 (args.scheduler is "balance")
GetUserJobs ==
    /\ pc = "get_user_jobs"
    /\ \E outcome \in ToolOutcomes :
          /\ jobs' = GetUserJobsResult(tools.qstat, outcome, cluster)
          /\ listed' = (tools.qstat /\ outcome = "ok")
    /\ pc' = "balance"
    /\ UNCHANGED <<envVars, args, exc, log, records, waiting_jobs,
                   considered, ffk, ffi, donor, n_target, minimizeVars,
                   moveVars, cmds, stable>>

\* -------------------------------------------------- scheduler_balance
\* lines 407-410: the capacity left by the running jobs of a queue
PcpusLeft(k, js) ==
    args.queue_info[k]
    - SumSeq([i \in 1..Len(js) |->
                 IF js[i].state = "R" /\ js[i].queue = args.queue[k]
                 THEN js[i].ncpus ELSE 0])

\* lines 396-415
BalanceBegin ==
    /\ pc = "balance"
    /\ LET js == SelectSeq(jobs, LAMBDA j : Configured(j.queue))
           wj == SortByNcpus(SelectSeq(js, LAMBDA j : j.state = "Q"))
       IN  /\ jobs' = js
           /\ records' = [k \in 1..Len(args.queue) |->
                             QueueRecord(0, PcpusLeft(k, js), <<>>, <<>>)]
           /\ waiting_jobs' = wj
           /\ considered' = {wj[i].id : i \in 1..Len(wj)}
           /\ ffk' = 1
           /\ ffi' = Len(wj)
    /\ pc' = "first_fit"
    /\ UNCHANGED <<envVars, args, exc, log, donor, n_target,
                   minimizeVars, moveVars, cmds, listed, stable>>

\* a test of the first-fit pass that only asks for capacity left
FitsAnySpare(job, v) == v.pcpus > 0

\* line 419: the test of the first-fit pass
Fits(job, v) == job.ncpus <= v.pcpus

\* lines 418-422, one value of i: pull waiting_jobs[i] into the queue if it fits
FirstFitStep ==
    /\ pc = "first_fit"
    /\ ffi >= 1
    /\ LET job == waiting_jobs[ffi]
       IN  IF Fits(job, records[ffk])
           THEN /\ waiting_jobs' = RemoveAt(waiting_jobs, ffi)
                /\ records' = [records EXCEPT
                                  ![ffk].pcpus = @ - job.ncpus,
                                  ![ffk].recv_jobs = Append(@, job)]
           ELSE UNCHANGED <<waiting_jobs, records>>
    /\ ffi' = ffi - 1
    /\ UNCHANGED <<envVars, args, pc, exc, log, jobs, considered, ffk,
                   donor, n_target, minimizeVars, moveVars, cmds, listed, stable>>

\* line 417: the next queue of records.items(), or the end of the pass
FirstFitNext ==
    /\ pc = "first_fit"
    /\ ffi = 0
    /\ IF ffk < Len(args.queue)
       THEN /\ ffk' = ffk + 1
            /\ ffi' = Len(waiting_jobs)
            /\ pc' = "first_fit"
       ELSE /\ ffk' = 0
            /\ ffi' = 0
            /\ pc' = "target"
    /\ UNCHANGED <<envVars, args, exc, log, jobs, records, waiting_jobs,
                   considered, donor, n_target, minimizeVars, moveVars, cmds,
                   listed, stable>>

\* lines 424-430: the target count, and the waiting jobs by current queue
TargetCount ==
    /\ pc = "target"
    /\ donor' = <<>>
    /\ n_target' = Len(waiting_jobs) \div Len(args.queue)
    /\ records' = [k \in 1..Len(args.queue) |->
                      LET mine == SelectSeq(waiting_jobs,
                                            LAMBDA j : j.queue = args.queue[k])
                      IN  [records[k] EXCEPT !.njobq = @ + Len(mine),
                                             !.waiting_jobs = @ \o mine]]
    /\ pc' = "donor"
    /\ UNCHANGED <<envVars, args, exc, log, jobs, waiting_jobs,
                   considered, ffk, ffi, minimizeVars, moveVars, cmds, listed, stable>>

\* line 433: a queue that holds more than the target
OverTarget(v, target) == v.njobq > target

\* lines 432-434: v["jobs"] subscripts a QueueRecord, which raises TypeError
DonorPass ==
    /\ pc = "donor"
    /\ IF \E k \in 1..Len(records) : OverTarget(records[k], n_target)
       THEN Raise("TypeError")
       ELSE /\ pc' = "acceptor"
            /\ UNCHANGED <<exc, balanceVars, minimizeVars, moveVars>>
    /\ UNCHANGED <<envVars, args, log, cmds, listed, stable>>

\* lines 436-440 from queue k on: a queue under the target takes from donor
RECURSIVE Accept(_, _, _, _)
Accept(recs, pool, target, k) ==
    IF k > Len(recs) THEN [records |-> recs, donor |-> pool]
    ELSE IF recs[k].njobq < target
    THEN LET need == target - recs[k].njobq
             diff == IF need <= Len(pool) THEN need ELSE Len(pool)
         IN  Accept([recs EXCEPT ![k].recv_jobs = @ \o SubSeq(pool, 1, diff)],
                    SubSeq(pool, diff + 1, Len(pool)), target, k + 1)
    ELSE Accept(recs, pool, target, k + 1)

AcceptorPass ==
    /\ pc = "acceptor"
    /\ LET r == Accept(records, donor, n_target, 1)
       IN  /\ records' = r.records
           /\ donor' = r.donor
    /\ pc' = "round_robin"
    /\ UNCHANGED <<envVars, args, exc, log, jobs, waiting_jobs,
                   considered, ffk, ffi, n_target, minimizeVars, moveVars,
                   cmds, listed, stable>>

\* lines 442-447: records[...].append: a QueueRecord has no append, which
\* raises AttributeError on the first job left in donor
RoundRobin ==
    /\ pc = "round_robin"
    /\ IF donor # <<>>
       THEN Raise("AttributeError")
       ELSE /\ pc' = "minimize"
            /\ UNCHANGED <<exc, balanceVars, minimizeVars, moveVars>>
    /\ UNCHANGED <<envVars, args, log, cmds, listed, stable>>

\* lines 449-457 and 356-375, with solve's lines 325-328
MinimizeBegin ==
    /\ pc = "minimize"
    /\ LET lists == [k \in 1..Len(records) |-> records[k].recv_jobs]
           elements == Concat(lists)
           slotqs == Slots(lists, args.queue)
       IN  /\ all_elements' = elements
           /\ slots' = slotqs
           /\ IF elements = <<>>
              THEN /\ mmlists' = lists
                   /\ solver' = NoSolver
                   /\ mvk' = 1
                   /\ pc' = "move"
              ELSE /\ mmlists' = <<>>
                   /\ solver' = [Step2(Step1(NewSolver(CostMatrix(elements, slotqs))))
                                    EXCEPT !.step = 3]
                   /\ mvk' = 0
                   /\ pc' = "solve"
    /\ UNCHANGED <<envVars, args, exc, log, balanceVars, assignment,
                   mjobs, mvi, cmds, listed, stable>>

\* lines 329-342: one pass of solve's while loop
HungarianStep ==
    /\ pc = "solve"
    /\ LET h == SolveDispatch(solver)
       IN  IF h.error # ""
           THEN Raise(h.error)
           ELSE /\ solver' = h
                /\ pc' = IF SolveDone(h) THEN "results" ELSE "solve"
                /\ UNCHANGED <<exc, balanceVars, all_elements, slots,
                               assignment, mmlists, moveVars>>
    /\ UNCHANGED <<envVars, args, log, cmds, listed, stable>>

\* lines 344-349 and 377-391
MinimizeEnd ==
    /\ pc = "results"
    /\ assignment' = SolveResults(solver)
    /\ mmlists' = FinalNewLists(SolveResults(solver), all_elements, slots, args.queue)
    /\ mvk' = 1
    /\ pc' = "move"
    /\ UNCHANGED <<envVars, args, exc, log, balanceVars, all_elements,
                   slots, solver, mjobs, mvi, cmds, listed, stable>>

\* ------------------------------------------------- move_jobs_to_queue
\* the batch of the code that lines 473-481 keep as a comment: all the list
ToMoveAll(list, qname) == list

\* line 460: the jobs of a list that are not in the queue of the list yet
ToMove(list, qname) == SelectSeq(list, LAMBDA j : j.queue # qname)

\* a dry_run argument that forgets the missing tool
MoveDryRunFlagOnly == args.dry_run

\* line 467: the dry_run argument of move_jobs_to_queue
MoveDryRun == args.dry_run \/ ~tools.qmove

\* qmove, exit status 0: the server puts the job into the queue
Moved(server_jobs, id, dest) ==
    [i \in 1..Len(server_jobs) |->
        IF server_jobs[i].id = id
        THEN [server_jobs[i] EXCEPT !.queue = dest]
        ELSE server_jobs[i]]

\* lines 459-468: the next pair of zip(mmnames, mmlists)
NextBatch ==
    /\ pc = "move"
    /\ mvk <= Len(args.queue)
    /\ LET batch == ToMove(mmlists[mvk], args.queue[mvk])
       IN  IF batch = <<>>
           THEN /\ mvk' = mvk + 1
                /\ UNCHANGED <<pc, mjobs, mvi>>
           ELSE /\ mjobs' = batch
                /\ mvi' = 1
                /\ pc' = "move_jobs"
                /\ UNCHANGED mvk
    /\ UNCHANGED <<envVars, args, exc, log, balanceVars, minimizeVars,
                   cmds, listed, stable>>

\* a loop that a failed qmove leaves
AfterMoveAbort(i, rc) == IF rc # 0 THEN Len(mjobs) + 1 ELSE i + 1

\* the job the loop of line 177 goes on with after job number i of the batch
\* whose qmove ended with exit status rc (lines 188-189 only log)
AfterMove(i, rc) == i + 1

\* lines 177-189, one job of the batch: the command is logged (dry run) or
\* run, and a non-zero exit status is logged
MoveJob ==
    /\ pc = "move_jobs"
    /\ mvi <= Len(mjobs)
    /\ \E rc \in IF MoveDryRun THEN {0} ELSE {0, 1} :
          /\ cmds' = Append(cmds, [dest |-> args.queue[mvk], id |-> mjobs[mvi].id,
                                   dry_run |-> MoveDryRun, rc |-> rc])
          /\ cluster' = IF ~MoveDryRun /\ rc = 0
                        THEN Moved(cluster, mjobs[mvi].id, args.queue[mvk])
                        ELSE cluster
          /\ IF AfterMove(mvi, rc) > Len(mjobs)
             THEN /\ mjobs' = <<>>
                  /\ mvi' = 0
                  /\ mvk' = mvk + 1
                  /\ pc' = "move"
             ELSE /\ mvi' = AfterMove(mvi, rc)
                  /\ UNCHANGED <<pc, mjobs, mvk>>
    /\ UNCHANGED <<tools, nodes, args, exc, log, balanceVars,
                   minimizeVars, listed, stable>>

\* ------------------------------------------------------------------ main
\* lines 470-471 and 506: scheduler_balance returns
EndCycle ==
    /\ pc = "move"
    /\ mvk > Len(args.queue)
    /\ pc' = "sleep"
    /\ NoLocals
    /\ UNCHANGED <<envVars, args, exc, log, cmds, listed, stable>>

\* line 507, then the next iteration of the while loop of line 492
Sleep ==
    /\ pc = "sleep"
    /\ pc' = "get_user_jobs"
    /\ cmds' = <<>>
    /\ stable' = IF listed /\ \A i \in 1..Len(cmds) :
                                 ~cmds[i].dry_run /\ cmds[i].rc = 0
                  THEN (IF cmds = <<>> THEN "unmoved" ELSE "moved")
                  ELSE "no"
    /\ UNCHANGED <<envVars, args, exc, log, balanceVars, minimizeVars,
                   moveVars, listed>>

\* the cluster between two cycles: nodes come and go, and pbsnodes would
\* report other pcpus for the queues (the program sleeps in line 507)
NodesChange ==
    /\ pc = "sleep"
    /\ \E n \in [QueueUniverse -> NodePcpus] :
          /\ n["X"] = 0
          /\ n # nodes
          /\ nodes' = n
    /\ UNCHANGED <<tools, cluster, args, pc, exc, log, balanceVars,
                   minimizeVars, moveVars, cmds, listed, stable>>

\* the positions inside the try of lines 487-507
InTry == {"get_user_jobs", "balance", "first_fit", "target", "donor",
          "acceptor", "round_robin", "minimize", "solve", "results", "move",
          "move_jobs", "sleep"}

\* Ctrl-C: KeyboardInterrupt is raised wherever the program is
Interrupt ==
    /\ pc \in InTry
    /\ Raise("KeyboardInterrupt")
    /\ UNCHANGED <<envVars, args, log, cmds, listed, stable>>

\* a handler inside the while loop: the loop goes on after an error
ExceptNextRetry(e) == IF e = "KeyboardInterrupt" THEN "exited" ELSE "get_user_jobs"

\* lines 487-516: the try encloses the while loop, so main returns after the
\* handler and the finally, whatever was raised
ExceptNext(e) == "exited"

\* lines 509-516: the handlers and the finally of main
Except ==
    /\ pc = "raised"
    /\ log' = IF exc = "KeyboardInterrupt"
              THEN <<"info: GreedyBear interrupted, exiting...", "info: Bye~">>
              ELSE <<"critical: unexpected error occurred", "info: Bye~">>
    /\ pc' = ExceptNext(exc)
    /\ UNCHANGED <<envVars, args, exc, balanceVars, minimizeVars,
                   moveVars, cmds, listed, stable>>

\* ------------------------------------------------------ initial states
\* the jobs of a list get the ids 1, 2, ... in list order
JobsOf(kinds) ==
    [i \in 1..Len(kinds) |->
        Job(i, kinds[i].owner, kinds[i].queue, kinds[i].state, kinds[i].ncpus)]

SeqsUpTo(S, n) == UNION {[1..k -> S] : k \in 0..n}

Kind(owner, queue, state, ncpus) ==
    [owner |-> owner, queue |-> queue, state |-> state, ncpus |-> ncpus]

\* the jobs of the user in the configured queues, and one job each of another
\* queue, another state, and of two other owners
ClusterKinds ==
    {Kind(OwnerSelf, q, "Q", c) : q \in {"A", "B"}, c \in NcpusValues}
    \cup {Kind(OwnerSelf, q, "R", 1) : q \in {"A", "B"}}
    \cup {Kind(OwnerSelf, "X", "Q", 1), Kind(OwnerSelf, "A", "H", 1),
          Kind(OwnerPrefixed, "A", "Q", 1), Kind(OwnerOther, "A", "Q", 1)}

BalanceKinds ==
    {Kind(OwnerSelf, q, s, c) : q \in {"A", "B"}, s \in {"Q", "R"}, c \in NcpusValues}

MinimizeKinds == {Kind(OwnerSelf, q, "Q", 1) : q \in QueueUniverse}

ToolSets ==
    {[qstat |-> TRUE, qmove |-> TRUE, pbsnd |-> TRUE],
     [qstat |-> FALSE, qmove |-> TRUE, pbsnd |-> TRUE],
     [qstat |-> TRUE, qmove |-> FALSE, pbsnd |-> TRUE],
     [qstat |-> TRUE, qmove |-> TRUE, pbsnd |-> FALSE]}

InitLocals ==
    /\ jobs = <<>>
    /\ records = <<>>
    /\ waiting_jobs = <<>>
    /\ considered = {}
    /\ ffk = 0
    /\ ffi = 0
    /\ donor = <<>>
    /\ n_target = 0
    /\ all_elements = <<>>
    /\ slots = <<>>
    /\ solver = NoSolver
    /\ assignment = <<>>
    /\ mmlists = <<>>
    /\ mvk = 0
    /\ mjobs = <<>>
    /\ mvi = 0

\* the daemon is started: main is about to call parse_arguments
Init ==
    /\ tools \in ToolSets
    /\ nodes \in [QueueUniverse -> NodePcpus]
    /\ nodes["X"] = 0
    /\ cluster \in {JobsOf(ks) : ks \in SeqsUpTo(ClusterKinds, MaxClusterJobs)}
    /\ args = [queue |-> <<>>, dry_run |-> FALSE, queue_info |-> <<>>]
    /\ pc = "parse_arguments"
    /\ exc = ""
    /\ log = <<>>
    /\ cmds = <<>>
    /\ listed = FALSE
    /\ stable = "no"
    /\ InitLocals

Next ==
    \/ ParseArguments
    \/ GetUserJobs
    \/ BalanceBegin
    \/ FirstFitStep
    \/ FirstFitNext
    \/ TargetCount
    \/ DonorPass
    \/ AcceptorPass
    \/ RoundRobin
    \/ MinimizeBegin
    \/ HungarianStep
    \/ MinimizeEnd
    \/ NextBatch
    \/ MoveJob
    \/ EndCycle
    \/ Sleep
    \/ NodesChange
    \/ Interrupt
    \/ Except

\* the whole daemon
Spec == Init /\ [][Next]_vars

\* the daemon, with the interpreter running a handler that is entered
SpecFair == Spec /\ WF_vars(Except)

\* one call of scheduler_balance(jobs, args), on any job list of the user
InitBalance ==
    /\ tools = [qstat |-> TRUE, qmove |-> TRUE, pbsnd |-> TRUE]
    /\ nodes \in [QueueUniverse -> PcpusValues]
    /\ nodes["X"] = 0
    /\ jobs \in {JobsOf(ks) : ks \in SeqsUpTo(BalanceKinds, MaxJobs)}
    /\ cluster = jobs
    /\ \E q \in QueueConfigs :
          args = [queue |-> q, dry_run |-> TRUE,
                  queue_info |-> [k \in 1..Len(q) |-> nodes[q[k]]]]
    /\ pc = "balance"
    /\ exc = ""
    /\ log = <<>>
    /\ cmds = <<>>
    /\ listed = TRUE
    /\ stable = "no"
    /\ records = <<>>
    /\ waiting_jobs = <<>>
    /\ considered = {}
    /\ ffk = 0
    /\ ffi = 0
    /\ donor = <<>>
    /\ n_target = 0
    /\ all_elements = <<>>
    /\ slots = <<>>
    /\ solver = NoSolver
    /\ assignment = <<>>
    /\ mmlists = <<>>
    /\ mvk = 0
    /\ mjobs = <<>>
    /\ mvi = 0

NextBalance ==
    \/ BalanceBegin
    \/ FirstFitStep
    \/ FirstFitNext
    \/ TargetCount
    \/ DonorPass
    \/ AcceptorPass
    \/ RoundRobin
    \/ MinimizeBegin
    \/ HungarianStep
    \/ MinimizeEnd
    \/ NextBatch
    \/ MoveJob
    \/ EndCycle

SpecBalance == InitBalance /\ [][NextBalance]_vars

\* the ways to cut n elements into one list per name
Cuts(n, names) ==
    {sz \in [1..Len(names) -> 0..n] : SumSeq(sz) = n}

\* the lists a cut makes of a job list
ListsOf(js, sz) ==
    [k \in 1..Len(sz) |->
        SubSeq(js, SumSeq(SubSeq(sz, 1, k - 1)) + 1, SumSeq(SubSeq(sz, 1, k)))]

MinimizeConfigs == {<<"A">>, <<"A", "B">>, <<"A", "B", "X">>}

\* one call of minimize_mismatches(mmlists, mmnames), on any lists of jobs of
\* the configured queues (line 396 keeps no other job): scheduler_balance is
\* at line 449 with recv_jobs filled in any way
InitMinimize ==
    /\ tools = [qstat |-> TRUE, qmove |-> TRUE, pbsnd |-> TRUE]
    /\ nodes = [q \in QueueUniverse |-> 0]
    /\ \E q \in MinimizeConfigs :
          /\ args = [queue |-> q, dry_run |-> TRUE,
                     queue_info |-> [k \in 1..Len(q) |-> 0]]
          /\ jobs \in {JobsOf(ks) : ks \in SeqsUpTo(MinimizeKinds, MaxElems)}
          /\ \A i \in 1..Len(jobs) : jobs[i].queue \in Range(q)
          /\ \E sz \in Cuts(Len(jobs), q) :
                records = [k \in 1..Len(q) |->
                              QueueRecord(0, 0, <<>>, ListsOf(jobs, sz)[k])]
    /\ cluster = jobs
    /\ pc = "minimize"
    /\ exc = ""
    /\ log = <<>>
    /\ cmds = <<>>
    /\ listed = FALSE
    /\ stable = "no"
    /\ waiting_jobs = <<>>
    /\ considered = {jobs[i].id : i \in 1..Len(jobs)}
    /\ ffk = 0
    /\ ffi = 0
    /\ donor = <<>>
    /\ n_target = 0
    /\ all_elements = <<>>
    /\ slots = <<>>
    /\ solver = NoSolver
    /\ assignment = <<>>
    /\ mmlists = <<>>
    /\ mvk = 0
    /\ mjobs = <<>>
    /\ mvi = 0

NextMinimize ==
    \/ MinimizeBegin
    \/ HungarianStep
    \/ MinimizeEnd

SpecMinimize == InitMinimize /\ [][NextMinimize]_vars

\* =============================================================== claims
Ids(js) == {js[i].id : i \in 1..Len(js)}

\* the jobs in the recv_jobs of all queues, and in mmlists, queue after queue
AllRecv == Concat([k \in 1..Len(records) |-> records[k].recv_jobs])

AllMinimized == Concat(mmlists)

NoRepeat(js) == Cardinality(Ids(js)) = Len(js)

BalancePcs == {"first_fit", "target", "donor", "acceptor", "round_robin",
               "minimize", "solve", "results"}

MovePcs == {"move", "move_jobs"}

\* C1 as stated: when the balancing steps are done, before and after
\* minimize_mismatches, the recv_jobs lists of the queues together hold as
\* many jobs as the cycle has waiting jobs.
C1_AllWaitingReceived ==
    /\ pc = "minimize" => Len(AllRecv) = Cardinality(considered)
    /\ pc \in MovePcs => Len(AllMinimized) = Cardinality(considered)

\* C1, amended: from the first-fit pass on, every waiting job of the cycle is
\* exactly once either in one queue's recv_jobs or still in the waiting list
\* (it stays in its queue), before minimize_mismatches and after it.
C1_ReceivedOrLeftWaiting ==
    /\ pc \in BalancePcs =>
          /\ NoRepeat(AllRecv \o waiting_jobs \o donor)
          /\ Ids(AllRecv \o waiting_jobs \o donor) = considered
    /\ pc \in MovePcs =>
          /\ NoRepeat(AllMinimized \o waiting_jobs)
          /\ Ids(AllMinimized \o waiting_jobs) = considered
          /\ Len(AllMinimized) = Len(AllRecv)

\* a cycle whose lists went through the solver and came out with a job
\* received by a queue and another job left waiting
C1_Witness ==
    /\ pc = "move"
    /\ solver.n > 0
    /\ AllMinimized # <<>>
    /\ waiting_jobs # <<>>

\* the one-to-one maps of rows to columns
Matchings(n) ==
    {f \in [1..n -> 1..n] : \A i, j \in 1..n : i # j => f[i] # f[j]}

MatchingCost(f) ==
    SumSeq([i \in 1..Len(all_elements) |-> Cost(all_elements[i], slots[f[i]])])

\* the pairs of solve as a map of rows to columns, when they are one
IsPerfect(asg) ==
    /\ Len(asg) = Len(all_elements)
    /\ {asg[i][1] : i \in 1..Len(asg)} = 1..Len(all_elements)
    /\ {asg[i][2] : i \in 1..Len(asg)} = 1..Len(all_elements)

AssignmentCost(asg) ==
    SumSeq([i \in 1..Len(asg) |-> Cost(all_elements[asg[i][1]], slots[asg[i][2]])])

\* whenever solve returns, what it returns is a perfect matching of least cost
ReturnedMatchingMinimal ==
    (pc = "move" /\ all_elements # <<>>) =>
        /\ IsPerfect(assignment)
        /\ \A f \in Matchings(Len(all_elements)) :
              AssignmentCost(assignment) <= MatchingCost(f)

\* C2: for every cost matrix that minimize_mismatches builds, solve returns a
\* matching, and its cost is the least of all perfect matchings (so at most
\* the cost of the identity assignment).
C2_SolveReturnsMinimalMatching ==
    (pc \in {"move", "raised"} /\ cluster # <<>>) =>
        /\ pc = "move"
        /\ IsPerfect(assignment)
        /\ \A f \in Matchings(Len(all_elements)) :
              AssignmentCost(assignment) <= MatchingCost(f)

\* C3: for every input, minimize_mismatches returns one list per queue, each
\* as long as the queue's input list, and every input job is in exactly one
\* of them, once.
C3_ListsKeepCountsAndJobs ==
    pc \in {"move", "raised"} =>
        /\ pc = "move"
        /\ Len(mmlists) = Len(args.queue)
        /\ \A k \in 1..Len(args.queue) :
              Len(mmlists[k]) = Len(records[k].recv_jobs)
        /\ NoRepeat(AllMinimized)
        /\ Ids(AllMinimized) = Ids(cluster)

\* what scheduler_balance works on, from the job list of the server: the
\* jobs of the user in the configured queues, and those of them that wait
InputJobs ==
    SelectSeq(cluster, LAMBDA j : OwnedBy(j.owner, User) /\ Configured(j.queue))

InputWaiting == SelectSeq(InputJobs, LAMBDA j : j.state = "Q")

\* no waiting job fits the capacity that the running jobs leave in any queue
NoSpareCapacity ==
    \A k \in 1..Len(args.queue), i \in 1..Len(InputWaiting) :
        InputWaiting[i].ncpus > PcpusLeft(k, InputJobs)

QueuedIn(q) == Cardinality({i \in 1..Len(InputWaiting) : InputWaiting[i].queue = q})

InputTarget == Len(InputWaiting) \div Len(args.queue)

UnevenSplit == \E k \in 1..Len(args.queue) : QueuedIn(args.queue[k]) # InputTarget

Shortfall ==
    SumSeq([k \in 1..Len(args.queue) |->
               IF QueuedIn(args.queue[k]) < InputTarget
               THEN InputTarget - QueuedIn(args.queue[k]) ELSE 0])

QueueOfId(id) == (CHOOSE j \in Range(cluster) : j.id = id).queue

\* C4: with no spare capacity in any queue and the queued jobs unevenly split,
\* the cycle completes and issues as many move commands as the queues under
\* the target are short of, each for a job of a queue over the target and to
\* a queue under it.
C4_MovesEqualShortfall ==
    (pc \in {"sleep", "raised"} /\ NoSpareCapacity /\ UnevenSplit) =>
        /\ pc = "sleep"
        /\ Len(cmds) = Shortfall
        /\ \A i \in 1..Len(cmds) :
              /\ QueuedIn(QueueOfId(cmds[i].id)) > InputTarget
              /\ QueuedIn(cmds[i].dest) < InputTarget

\* the unfit waiting jobs a queue keeps, gives to the pool and takes from it
Donated(k) ==
    Cardinality({i \in 1..Len(records[k].waiting_jobs) :
                    records[k].waiting_jobs[i].id \in Ids(AllRecv \o donor)})

FromPool(k) ==
    Cardinality({i \in 1..Len(records[k].recv_jobs) :
                    records[k].recv_jobs[i].id \in Ids(waiting_jobs)})

Resulting(k) == records[k].njobq - Donated(k) + FromPool(k)

\* C5: the donor/acceptor pass and the round-robin pass finish, for every
\* distribution of the unfit waiting jobs, with the pool empty and with
\* resulting queued-job counts of any two queues at most 1 apart.
C5_CountsWithinOne ==
    (pc = "minimize" \/ (pc = "raised" /\ exc \in {"TypeError", "AttributeError"})) =>
        /\ pc = "minimize"
        /\ donor = <<>>
        /\ \A k1, k2 \in 1..Len(records) : Resulting(k1) - Resulting(k2) <= 1

NcpusOf(js) == SumSeq([i \in 1..Len(js) |-> js[i].ncpus])

\* during the first-fit pass the figure of a queue is its first figure less
\* the ncpus it pulled; it stays non-negative if it began so, and a queue
\* that began at zero or below has pulled nothing
FirstFitFigures ==
    pc \in {"first_fit", "target"} =>
        \A k \in 1..Len(records) :
            /\ records[k].pcpus = PcpusLeft(k, jobs) - NcpusOf(records[k].recv_jobs)
            /\ PcpusLeft(k, jobs) >= 0 => records[k].pcpus >= 0
            /\ PcpusLeft(k, jobs) <= 0 => records[k].recv_jobs = <<>>

\* a step of the pass changes the lists only by pulling the job at i, and
\* only when its ncpus is at most the figure the queue has at that moment
FirstFitPull ==
    (pc = "first_fit" /\ pc' = "first_fit" /\ ffi >= 1
        /\ <<records, waiting_jobs>>' # <<records, waiting_jobs>>) =>
        /\ waiting_jobs[ffi].ncpus <= records[ffk].pcpus
        /\ records' = [records EXCEPT
                          ![ffk].pcpus = @ - waiting_jobs[ffi].ncpus,
                          ![ffk].recv_jobs = Append(@, waiting_jobs[ffi])]
        /\ Ids(waiting_jobs') = Ids(waiting_jobs) \ {waiting_jobs[ffi].id}

\* C6: the first-fit pass pulls a job into a queue only if its ncpus is at
\* most the capacity figure the pass holds for the queue at that moment; a
\* queue whose figure is zero or negative receives no job, and a figure that
\* starts non-negative never becomes negative.
C6_FirstFitWithinCapacity == []FirstFitFigures /\ [][FirstFitPull]_vars

\* the pass is over: a queue pulled a job, a job is left that fits nowhere,
\* and a queue began below zero
C6_Witness ==
    /\ pc = "target"
    /\ waiting_jobs # <<>>
    /\ \E k \in 1..Len(records) : records[k].recv_jobs # <<>>
    /\ \E k \in 1..Len(records) : PcpusLeft(k, jobs) < 0

\* C7: a cycle that runs on the state left by a completed cycle, all of whose
\* move commands took effect, with nothing else changed, issues no move
\* command.
C7_SecondCycleIssuesNoMove == stable # "no" => cmds = <<>>

\* a cycle moved jobs, and the cycle after it read the job list and ended
\* without a command
C7_Witness ==
    /\ stable = "moved"
    /\ listed
    /\ pc = "sleep"
    /\ cmds = <<>>

\* inside a batch, the commands issued for it so far are those of its first
\* jobs, one each, in list order
BatchSoFar ==
    pc = "move_jobs" =>
        /\ mvi \in 1..Len(mjobs)
        /\ Len(cmds) >= mvi - 1
        /\ \A i \in 1..(mvi - 1) :
              LET c == cmds[Len(cmds) - (mvi - 1) + i]
              IN  c.id = mjobs[i].id /\ c.dest = args.queue[mvk]

\* a step of a batch that is not a dry run issues the command of the next job
\* whatever the exit status, and goes on to the job after it or, after the
\* last job, back to scheduler_balance; only Ctrl-C raises
BatchStep ==
    (pc = "move_jobs" /\ ~MoveDryRun) =>
        \/ pc' = "raised" /\ exc' = "KeyboardInterrupt"
        \/ /\ Len(cmds') = Len(cmds) + 1
           /\ SubSeq(cmds', 1, Len(cmds)) = cmds
           /\ cmds'[Len(cmds')].id = mjobs[mvi].id
           /\ cmds'[Len(cmds')].dest = args.queue[mvk]
           /\ ~cmds'[Len(cmds')].dry_run
           /\ IF mvi < Len(mjobs)
              THEN pc' = "move_jobs" /\ mvi' = mvi + 1 /\ mjobs' = mjobs /\ mvk' = mvk
              ELSE pc' = "move" /\ mvk' = mvk + 1

\* C8: move_jobs_to_queue without dry run issues exactly one move command for
\* every job of the batch, in list order, for every pattern of failures; a
\* failed command stops neither the later commands nor the cycle.
C8_OneCommandPerJob == []BatchSoFar /\ [][BatchStep]_vars

\* the first command of a batch failed and the second was issued all the same
C8_Witness ==
    /\ pc = "move"
    /\ Len(cmds) = 2
    /\ ~cmds[1].dry_run
    /\ cmds[1].rc = 1
    /\ cmds[2].dest = cmds[1].dest
    /\ cmds[2].rc = 0

NoToolRun == args.dry_run \/ ~tools.qmove

\* with the flag set or qmove missing, every command line was only logged
NoInvocation == NoToolRun => \A i \in 1..Len(cmds) : cmds[i].dry_run

\* and a step of a batch logs the line, leaves the jobs of the server alone
\* and raises nothing (only Ctrl-C does)
LoggedStep ==
    (pc = "move_jobs" /\ NoToolRun) =>
        \/ pc' = "raised" /\ exc' = "KeyboardInterrupt"
        \/ /\ cmds' = Append(cmds, [dest |-> args.queue[mvk], id |-> mjobs[mvi].id,
                                    dry_run |-> TRUE, rc |-> 0])
           /\ cluster' = cluster
           /\ pc' \in {"move_jobs", "move"}

\* C9: in a run with the dry-run flag set or without the move tool, the move
\* tool is never invoked: intended moves are only logged, and the Job Mover
\* raises nothing.
C9_DryRunInvokesNothing == []NoInvocation /\ [][LoggedStep]_vars

\* qmove is missing, the flag is not set, and a cycle ended with moves logged
C9_Witness ==
    /\ ~args.dry_run
    /\ ~tools.qmove
    /\ pc = "sleep"
    /\ cmds # <<>>

\* C10: no failure of a collector or executor tool (not found, non-zero exit,
\* unparseable output) stops the daemon: it is absorbed as empty or zeroed
\* data and the loop goes on.
C10_ToolFailuresAbsorbed ==
    ~(pc \in {"crashed", "raised", "exited"}
        /\ exc \in {"CalledProcessError", "JSONDecodeError"})

UnexpectedErrors == {"TypeError", "AttributeError", "IndexError"}

\* an error of a cycle that was handled left the two closing log lines
ErrorLogged ==
    (pc = "exited" /\ exc \in UnexpectedErrors) =>
        log = <<"critical: unexpected error occurred", "info: Bye~">>

\* the only step after an error is the handler's, which ends main; nothing
\* follows it: no job list, no balancing step, no qmove, no sleep
ErrorEndsLoop ==
    /\ (pc = "raised" /\ exc \in UnexpectedErrors) =>
          /\ pc' = "exited"
          /\ exc' = exc
          /\ UNCHANGED <<cmds, cluster, balanceVars, minimizeVars, moveVars>>
    /\ pc = "exited" => UNCHANGED vars

\* C11: an unexpected error raised by a cycle is caught and logged at
\* critical severity, the closing log line follows, and the loop ends: no
\* job collection, balancing step, move command or sleep comes after it.
C11_ErrorEndsDaemon ==
    /\ []ErrorLogged
    /\ [][ErrorEndsLoop]_vars
    /\ ((pc = "raised" /\ exc \in UnexpectedErrors) ~> pc = "exited")

\* a cycle raised TypeError in its donor pass, the handler ran and main has
\* ended
C11_Witness ==
    /\ pc = "exited"
    /\ exc = "TypeError"
    /\ log # <<>>

\* C12: the capacity that the balancing step of a cycle works with was
\* collected in that cycle: it is what pbsnodes reports for the queues when
\* the cycle runs, so a change between two cycles is seen by the later one.
C12_CapacityCollectedEachCycle ==
    (pc = "balance" /\ ~args.dry_run /\ tools.pbsnd) =>
        \A k \in 1..Len(args.queue) : args.queue_info[k] = nodes[args.queue[k]]

\* a batch that is run (no dry run) and whose first command was issued goes
\* on to its last command: no step leaves it before
BatchNeverCutShort ==
    (pc = "move_jobs" /\ mvi > 1 /\ ~MoveDryRun) => pc' \in {"move_jobs", "move"}

\* C13: there is no mid-cycle cancellation: an interrupt that arrives while a
\* cycle is in progress does not cut it short, so every move command the
\* cycle decided on is issued before the loop ends and an interrupt never
\* leaves a batch of moves partly executed.
C13_NoMidCycleCancellation == [][BatchNeverCutShort]_vars

\* every job of the final lists sits in the queue of its list
AllInPlace ==
    \A k \in 1..Len(mmlists) : \A i \in 1..Len(mmlists[k]) :
        mmlists[k][i].queue = args.queue[k]

\* the scenario of the spec at the size of the model: queues A and B, A with
\* room for every job and B with none, every job queued in A
AllFitInA ==
    /\ args.queue = <<"A", "B">>
    /\ args.queue_info = <<2, 0>>
    /\ cluster # <<>>
    /\ \A i \in 1..Len(cluster) : cluster[i].queue = "A" /\ cluster[i].state = "Q"
    /\ NcpusOf(cluster) <= 2

\* C14: no move command, run or logged, is issued for a job whose current
\* queue is the destination; when every job of the final lists is in the
\* queue of its list the cycle issues no command, as in the scenario where
\* all waiting jobs sit in A and fit into A.
C14_NoMoveToOwnQueue ==
    /\ \A i \in 1..Len(cmds) : QueueOfId(cmds[i].id) # cmds[i].dest
    /\ (pc = "move" /\ mvk > Len(args.queue) /\ AllInPlace) => cmds = <<>>
    /\ AllFitInA => (pc # "raised" /\ cmds = <<>>)

\* the scenario: the move loop is over, both jobs are in the list of A, where
\* they are queued, and there is no command
C14_Witness ==
    /\ AllFitInA
    /\ pc = "move"
    /\ mvk > Len(args.queue)
    /\ Len(mmlists[1]) = 2
    /\ cmds = <<>>

\* the user name of a Job_Owner string: what stands before the "@"
UserOf(owner) ==
    LET at == {i \in 1..Len(owner) : owner[i] = "@"}
    IN  IF at = {} THEN owner ELSE SubSeq(owner, 1, Min(at) - 1)

JobOfId(id) == CHOOSE j \in Range(cluster) : j.id = id

\* a step that issues a command issues it for a queued job that owned(owner)
\* accepts, from a configured queue to a configured queue
IssuesOnlyFor(owned(_)) ==
    (cmds' # cmds /\ cmds' # <<>>) =>
        LET c == cmds'[Len(cmds')]
            j == JobOfId(c.id)
        IN  /\ j.state = "Q"
            /\ owned(j.owner)
            /\ Configured(j.queue)
            /\ Configured(c.dest)

OwnerIsUser(owner) == UserOf(owner) = User

OwnerStartsWithUser(owner) == OwnedBy(owner, User)

\* C15: every move command of any cycle is for a job that is in state Queued,
\* is owned by the target user and sits in a configured queue, and its
\* destination is a configured queue.
C15_OnlyOwnQueuedConfiguredJobs == [][IssuesOnlyFor(OwnerIsUser)]_vars

\* what holds of the commands with the owner test of line 163 in the place
\* of ownership
CommandsForListedJobs == [][IssuesOnlyFor(OwnerStartsWithUser)]_vars

\* C16: with exactly one configured queue a cycle completes without an
\* error and issues no move command, whatever the jobs and the capacity: the
\* target count is the number of the waiting jobs left by first-fit, all of
\* them in that queue, and no job is donated.
C16_SingleQueueNoMoves ==
    Len(args.queue) = 1 =>
        /\ pc # "raised"
        /\ cmds = <<>>
        /\ pc \in {"donor", "acceptor", "round_robin", "minimize"} =>
              /\ n_target = Len(waiting_jobs)
              /\ records[1].njobq = n_target
              /\ donor = <<>>

\* one queue: the move loop is over, a job was pulled by first-fit and went
\* through the solver, another is left waiting
C16_Witness ==
    /\ Len(args.queue) = 1
    /\ pc = "move"
    /\ mvk > 1
    /\ solver.n > 0
    /\ mmlists[1] # <<>>
    /\ waiting_jobs # <<>>
    /\ cmds = <<>>

NonIncreasing(js) ==
    \A i, j \in 1..Len(js) : i < j => js[i].ncpus >= js[j].ncpus

\* the queues whose pass is over: those before ffk, ffk itself when its scan
\* has reached the front of the list, and all of them after the last pass
PassOver(k) ==
    \/ pc = "target"
    \/ pc = "first_fit" /\ (k < ffk \/ (k = ffk /\ ffi = 0))

\* each queue has pulled in non-increasing ncpus order, and no job left in the
\* waiting list fits the figure of a queue whose pass is over
GreedyMaximal ==
    pc \in {"first_fit", "target"} =>
        \A k \in 1..Len(records) :
            /\ NonIncreasing(records[k].recv_jobs)
            /\ PassOver(k) =>
                  \A i \in 1..Len(waiting_jobs) :
                      waiting_jobs[i].ncpus > records[k].pcpus

\* the pass takes the queues in list order, and a step changes the list and
\* the figure of the queue it is at only, taking from the waiting list
QueueMajor ==
    pc = "first_fit" =>
        /\ pc' = "first_fit" => ffk' \in {ffk, ffk + 1}
        /\ pc' \in {"first_fit", "target"} =>
              /\ \A k \in 1..Len(records) : k # ffk => records'[k] = records[k]
              /\ Ids(waiting_jobs') \subseteq Ids(waiting_jobs)
              /\ ffk' # ffk => (ffi = 0 /\ records' = records)

\* C17: the first-fit pass is queue-major and greedy-maximal: the queues are
\* processed in list order, each pulls jobs in non-increasing ncpus order
\* from what the earlier queues left, and when the pass over a queue ends
\* every job still waiting has ncpus above the queue's remaining figure.
C17_FirstFitGreedyMaximal == []GreedyMaximal /\ [][QueueMajor]_vars

\* the pass is over: the first of two queues pulled a 2-cpu job and then a
\* 1-cpu job, and a third job fits nowhere
C17_Witness ==
    /\ pc = "target"
    /\ Len(records) = 2
    /\ Len(records[1].recv_jobs) = 2
    /\ records[1].recv_jobs[1].ncpus > records[1].recv_jobs[2].ncpus
    /\ waiting_jobs # <<>>

\* C18: for every n x n cost matrix of 0s and 1s the step machine of solve
\* ends normally, raising nothing, with exactly n (row, column) pairs; step 6
\* is only entered with the non-empty path that step 5 has set.
C18_SolveTerminatesNormally ==
    /\ ~(pc = "raised" /\ exc = "IndexError")
    /\ (pc = "solve" /\ solver.step = 6) => solver.path # <<>>
    /\ pc = "results" => Len(SolveResults(solver)) = solver.n

CmdIds == {cmds[i].id : i \in 1..Len(cmds)}

\* C19: within one cycle at most one move command is issued per job id: no
\* job is in the recv_jobs of two queues or twice in one, before or after
\* minimize_mismatches, so no job is sent to two destinations.
C19_AtMostOneMovePerJob ==
    /\ Cardinality(CmdIds) = Len(cmds)
    /\ pc \in BalancePcs => NoRepeat(AllRecv)
    /\ pc \in MovePcs => NoRepeat(AllMinimized)

\* the move loop is over and the cycle issued commands for three jobs that
\* went through the solver
C19_Witness ==
    /\ pc = "move"
    /\ mvk > Len(args.queue)
    /\ solver.n = 3
    /\ Len(cmds) = 3

Starred(h) == {p \in (1..h.n) \X (1..h.m) : h.marked[p[1]][p[2]] = 1}

\* the stars are a partial matching on zeros of the reduced matrix
StarsMatchZeros(h) ==
    /\ \A p, q \in Starred(h) : p # q => (p[1] # q[1] /\ p[2] # q[2])
    /\ \A p \in Starred(h) : h.cost_matrix[p[1]][p[2]] = 0

\* C20: at every step boundary of solve the starred entries are a partial
\* matching on zeros of the reduced matrix (no two in a row or a column, each
\* on a zero), so the pairs solve returns repeat no row and no column.
C20_StarsArePartialMatching ==
    /\ pc \in {"solve", "results"} => StarsMatchZeros(solver)
    /\ pc = "move" =>
          \A i, j \in 1..Len(assignment) :
              i # j => (assignment[i][1] # assignment[j][1]
                        /\ assignment[i][2] # assignment[j][2])

\* solve is about to return a matching of three rows that is not the diagonal
C20_Witness ==
    /\ pc = "results"
    /\ solver.n = 3
    /\ Cardinality(Starred(solver)) = 3
    /\ solver.marked[1][1] # 1

====
